---- MODULE Spec2Model ----
(***************************************************************************)
(* Model of spyder_terminal/widgets/terminalgui.py: the TerminalWidget     *)
(* (bridge between the host and the rendered terminal), its ChannelHandler *)
(* (callbacks the surface invokes) and the TermView (command dispatch,     *)
(* wheel and keyboard interception).                                       *)
(*                                                                         *)
(* Program state: font, initial_path (TerminalWidget fields), timer (how   *)
(* many QTimer.singleShot of the liveness loop are pending), webengine (the *)
(* backend                                                                 *)
(* capability WEBENGINE), conf (the parent's option store, as last read).  *)
(* Observations of the outside world: surface (the scripts handed to the   *)
(* document, in order), signals (terminal_ready / terminal_closed          *)
(* emissions, in order), notifs (what caused each emission), pollLog (one  *)
(* entry per liveness poll), pageActions (triggerPageAction calls),        *)
(* lastCall and lastEvent (the most recent operation and keyboard event),  *)
(* hostCalls (how many operations the host has called).                    *)
(***************************************************************************)
EXTENDS Integers, Sequences, FiniteSets, TLC

VARIABLES webengine, font, initial_path, conf, timer,
          surface, signals, notifs, pollLog, pageActions, lastCall, lastEvent,
          hostCalls

vars == <<webengine, font, initial_path, conf, timer,
          surface, signals, notifs, pollLog, pageActions, lastCall, lastEvent,
          hostCalls>>

(***************************************************************************)
(* Bounds of the model.                                                    *)
(***************************************************************************)
\* the host calls at most MaxHostCalls operations
MaxHostCalls == 2
\* surface notifications (handler.ready / handler.close) handled at most
MaxNotifs == 2
\* keyboard events and menu copy/paste triggers handled at most
MaxKeyEvents == 2
\* liveness polls run at most
MaxPolls == 3
\* host calls, surface notifications and polls handled at most, together
MaxSteps == 4

(***************************************************************************)
(* Input values.                                                           *)
(***************************************************************************)
Fonts == {"Mono", "Sans"}
InitialFonts == {"Mono"}
Paths == {"~"}
DirArgs == {"/tmp/x"}
CmdArgs == {"ls"}
RegexArgs == {"a+"}
WheelDeltas == {-120}
OptionArgs == {<<"fontSize", "12">>}
\* what the surface computes for getFonts()
FontLists == {"Mono,Sans"}

\* Python's None, as str.format and truth testing see it
None == "None"

\* option maps of the configuration store: recognized and unrecognized keys,
\* cursor_type 3 is outside the cursor_choices table
SoundOnly == [k \in {"sound"} |-> FALSE]
CursorOnly(c) == [k \in {"cursor_type"} |-> c]
ZoomOnly == [k \in {"zoom"} |-> 5]
EmptyMap == [k \in {} |-> 0]
SoundUnderline == ("sound" :> TRUE) @@ ("cursor_type" :> 1)
SoundBadCursor == ("sound" :> TRUE) @@ ("cursor_type" :> 3)

\* what the configuration store may hold when setup_term reads it
ConfMaps == {SoundUnderline, SoundBadCursor}
\* the option maps the host passes to apply_settings itself
HostOptionMaps == {SoundUnderline, SoundBadCursor}

AllOptionMaps ==
    { s @@ c @@ z :
        s \in {EmptyMap, [k \in {"sound"} |-> TRUE], SoundOnly},
        c \in {EmptyMap} \cup {CursorOnly(i) : i \in 0..3},
        z \in {EmptyMap, ZoomOnly} }

(***************************************************************************)
(* TermView.eval_javascript and the command texts.                         *)
(***************************************************************************)
PREFIX == "spyder_terminal.default."

\* the text TermView.eval_javascript hands to the document
TermView_script(script) == PREFIX \o script

\* what TermView.eval_javascript returns to its caller when the surface
\* computed `value`: neither branch has a return statement
TermView_eval_javascript_result(value) == None

\* faulty variant of eval_javascript: the widget adds the prefix too
eval_javascript_prefixed_twice(script) == TermView_script(PREFIX \o script)

\* what TerminalWidget.eval_javascript hands to the view and then the document
eval_javascript(script) == TermView_script(script)

setcwd_script(path) == "setcwd(\"" \o path \o "\")"
fitFont_script(f) == "fitFont(\"" \o f \o "\")"
getFonts_script == "getFonts()"
searchNext_script(regex) == "searchNext(\"" \o regex \o "\")"
searchPrevious_script(regex) == "searchPrevious(\"" \o regex \o "\")"
exec_script(cmd) == "exec(\"" \o cmd \o "\")"
isAlive_script == "isAlive()"
setOption_script(option_name, option) ==
    "setOption(\"" \o option_name \o "\", \"" \o option \o "\")"
scrollTerm_script(delta) == "scrollTerm(" \o ToString(delta) \o ")"

\* the Python value of the boolean the surface computed
PyBool(b) == IF b THEN "True" ELSE "False"

\* Python truth value of a object returned by eval_javascript
Truthy(v) == v = "True"

(***************************************************************************)
(* TerminalWidget.apply_settings: the commands it dispatches, in order,    *)
(* and whether it ends in a KeyError (cursor_choices[cursor_id]).          *)
(***************************************************************************)
cursor_choices == (0 :> "block") @@ (1 :> "underline") @@ (2 :> "bar")

bell_style(options) == IF options["sound"] THEN "sound" ELSE "none"

\* faulty variant of apply_settings_bell: the cursor name is looked up before
\* anything is dispatched
apply_settings_bell_after_lookup(options) ==
    IF /\ "sound" \in DOMAIN options
       /\ ~(/\ "cursor_type" \in DOMAIN options
            /\ options["cursor_type"] \notin DOMAIN cursor_choices)
    THEN <<eval_javascript(setOption_script("bellStyle", bell_style(options)))>>
    ELSE <<>>

apply_settings_bell(options) ==
    IF "sound" \in DOMAIN options
    THEN <<eval_javascript(setOption_script("bellStyle", bell_style(options)))>>
    ELSE <<>>

apply_settings_raises(options) ==
    /\ "cursor_type" \in DOMAIN options
    /\ options["cursor_type"] \notin DOMAIN cursor_choices

\* faulty variant of apply_settings_cursor: the cursor branch is an elif of
\* the bell branch
apply_settings_cursor_elif(options) ==
    IF /\ "sound" \notin DOMAIN options
       /\ "cursor_type" \in DOMAIN options
       /\ ~apply_settings_raises(options)
    THEN <<eval_javascript(setOption_script("cursorStyle",
                               cursor_choices[options["cursor_type"]]))>>
    ELSE <<>>

apply_settings_cursor(options) ==
    IF "cursor_type" \in DOMAIN options /\ ~apply_settings_raises(options)
    THEN <<eval_javascript(setOption_script("cursorStyle",
                               cursor_choices[options["cursor_type"]]))>>
    ELSE <<>>

apply_settings_cmds(options) ==
    apply_settings_bell(options) \o apply_settings_cursor(options)

\* faulty variant of setup_term_cmds: the directory is set before the font
setup_term_cmds_dir_first(f, path, options) ==
    <<eval_javascript(setcwd_script(path)),
      eval_javascript(fitFont_script(f))>> \o apply_settings_cmds(options)

\* TerminalWidget.setup_term: set_font(self.font), set_dir(self.initial_path),
\* apply_settings(options of the parent)
setup_term_cmds(f, path, options) ==
    <<eval_javascript(fitFont_script(f)),
      eval_javascript(setcwd_script(path))>> \o apply_settings_cmds(options)

\* lastCall: the operation that ran last, its arguments, the index of the
\* first command it dispatched, how many of them came from host slots run
\* inside it, whether it ended in an exception, whether terminal_closed
\* had been emitted before it ran, the value the surface computed for its
\* command and the value the operation returned to its caller
NoCall == [op |-> "none", args |-> <<>>, first |-> 1, host |-> 0,
           err |-> FALSE, closed |-> FALSE, value |-> None, ret |-> None]

\* lastEvent: the keyboard event or menu trigger the view handled last, the
\* chord text computed for it, the accepted flag it arrived with and the one
\* it was left with, what the handler returned and how many page actions had
\* been triggered before it
NoEvent == [type |-> "none", key |-> 0, modifiers |-> {}, sequence |-> "",
            accepted0 |-> FALSE, accepted |-> FALSE, ret |-> "none",
            before |-> 0]

Emitted(sig) == \E i \in DOMAIN signals : signals[i] = sig

\* a call that starts dispatching after the commands already on the surface
Call(op, args, err) ==
    [op |-> op, args |-> args, first |-> Len(surface) + 1, host |-> 0,
     err |-> err, closed |-> Emitted("closed"), value |-> None, ret |-> None]

\* a call of an operation that returns what eval_javascript returned, the
\* surface having computed `value` for its command
ValueCall(op, args, value) ==
    [Call(op, args, FALSE) EXCEPT
        !.value = value,
        !.ret = TermView_eval_javascript_result(value)]

\* the commands the most recent operation dispatched
lastCmds == SubSeq(surface, lastCall.first, Len(surface))

\* the page actions the most recent keyboard event or menu trigger invoked
lastPageActions == SubSeq(pageActions, lastEvent.before + 1, Len(pageActions))

(***************************************************************************)
(* Construction: TerminalWidget.__init__ and TermView.__init__.            *)
(***************************************************************************)
\* faulty variant of Init: the first poll is scheduled on every backend
Init_always_polls ==
    /\ webengine \in BOOLEAN
    /\ font \in InitialFonts
    /\ initial_path \in Paths
    /\ conf = EmptyMap
    /\ timer = 1
    /\ surface = <<>>
    /\ signals = <<>>
    /\ notifs = <<>>
    /\ pollLog = <<>>
    /\ pageActions = <<>>
    /\ lastCall = NoCall
    /\ lastEvent = NoEvent
    /\ hostCalls = 0

Init ==
    /\ webengine \in BOOLEAN
    /\ font \in InitialFonts
    /\ initial_path \in Paths
    /\ conf = EmptyMap
    /\ timer = IF webengine THEN 0 ELSE 1
    /\ surface = <<>>
    /\ signals = <<>>
    /\ notifs = <<>>
    /\ pollLog = <<>>
    /\ pageActions = <<>>
    /\ lastCall = NoCall
    /\ lastEvent = NoEvent
    /\ hostCalls = 0

Frame == UNCHANGED <<webengine, initial_path, conf, pageActions, lastEvent>>
Quiet == UNCHANGED <<timer, signals, notifs, pollLog>>

Steps == hostCalls + Len(notifs) + Len(pollLog)

HostMay ==
    /\ hostCalls < MaxHostCalls
    /\ Steps < MaxSteps
    /\ hostCalls' = hostCalls + 1

NotifMay == Len(notifs) < MaxNotifs /\ Steps < MaxSteps

PollMay == Len(pollLog) < MaxPolls /\ Steps < MaxSteps

(***************************************************************************)
(* Public operations of TerminalWidget, called by the host.                *)
(***************************************************************************)
\* faulty variant of set_dir: it also replaces the stored initial path
set_dir_stores_path(path) ==
    /\ HostMay
    /\ surface' = Append(surface, eval_javascript(setcwd_script(path)))
    /\ lastCall' = Call("set_dir", <<path>>, FALSE)
    /\ initial_path' = path
    /\ UNCHANGED <<font, webengine, conf, pageActions, lastEvent>> /\ Quiet

set_dir(path) ==
    /\ HostMay
    /\ surface' = Append(surface, eval_javascript(setcwd_script(path)))
    /\ lastCall' = Call("set_dir", <<path>>, FALSE)
    /\ UNCHANGED font /\ Frame /\ Quiet

\* faulty variant of set_font: the command is formatted before the font is
\* stored
set_font_formats_first(f) ==
    /\ HostMay
    /\ surface' = Append(surface, eval_javascript(fitFont_script(font)))
    /\ font' = f
    /\ lastCall' = Call("set_font", <<f>>, FALSE)
    /\ Frame /\ Quiet

set_font(f) ==
    /\ HostMay
    /\ font' = f
    /\ surface' = Append(surface, eval_javascript(fitFont_script(font')))
    /\ lastCall' = Call("set_font", <<f>>, FALSE)
    /\ Frame /\ Quiet

\* fonts is what the surface computes for the command
get_fonts(fonts) ==
    /\ HostMay
    /\ surface' = Append(surface, eval_javascript(getFonts_script))
    /\ lastCall' = ValueCall("get_fonts", <<>>, fonts)
    /\ UNCHANGED font /\ Frame /\ Quiet

\* found is what the surface computes for the command
search_next(regex, found) ==
    /\ HostMay
    /\ surface' = Append(surface, eval_javascript(searchNext_script(regex)))
    /\ lastCall' = ValueCall("search_next", <<regex>>, PyBool(found))
    /\ UNCHANGED font /\ Frame /\ Quiet

search_previous(regex, found) ==
    /\ HostMay
    /\ surface' = Append(surface, eval_javascript(searchPrevious_script(regex)))
    /\ lastCall' = ValueCall("search_previous", <<regex>>, PyBool(found))
    /\ UNCHANGED font /\ Frame /\ Quiet

\* faulty variant of exec_cmd: the command is put ahead of those already
\* handed to the surface
exec_cmd_jumps_queue(cmd) ==
    /\ HostMay
    /\ surface' = <<eval_javascript(exec_script(cmd))>> \o surface
    /\ lastCall' = Call("exec_cmd", <<cmd>>, FALSE)
    /\ UNCHANGED font /\ Frame /\ Quiet

exec_cmd(cmd) ==
    /\ HostMay
    /\ surface' = Append(surface, eval_javascript(exec_script(cmd)))
    /\ lastCall' = Call("exec_cmd", <<cmd>>, FALSE)
    /\ UNCHANGED font /\ Frame /\ Quiet

\* answer is what the surface computes for the command
is_alive(answer) ==
    /\ HostMay
    /\ surface' = Append(surface, eval_javascript(isAlive_script))
    /\ lastCall' = ValueCall("is_alive", <<>>, PyBool(answer))
    /\ UNCHANGED font /\ Frame /\ Quiet

set_option(option_name, option) ==
    /\ HostMay
    /\ surface' = Append(surface,
                         eval_javascript(setOption_script(option_name, option)))
    /\ lastCall' = Call("set_option", <<option_name, option>>, FALSE)
    /\ UNCHANGED font /\ Frame /\ Quiet

apply_settings(options) ==
    /\ HostMay
    /\ surface' = surface \o apply_settings_cmds(options)
    /\ lastCall' = Call("apply_settings", <<options>>,
                        apply_settings_raises(options))
    /\ UNCHANGED font /\ Frame /\ Quiet

\* TermView.wheelEvent
wheelEvent(delta) ==
    /\ HostMay
    /\ surface' = Append(surface, TermView_script(scrollTerm_script(delta)))
    /\ lastCall' = Call("wheelEvent", <<delta>>, FALSE)
    /\ UNCHANGED font /\ Frame /\ Quiet

(***************************************************************************)
(* ChannelHandler: the callbacks the surface invokes. TermView.__init__    *)
(* registers the handler with the web channel only when WEBENGINE.         *)
(***************************************************************************)
\* faulty variant of registered: the handler is registered on every backend
registered_always == TRUE

registered == webengine

\* what a host slot connected to terminal_ready does when the signal is
\* delivered: nothing, or one exec_cmd
HostReactions == {"none", "exec_cmd"}

host_reaction_cmds(reaction) ==
    IF reaction = "exec_cmd"
    THEN <<eval_javascript(exec_script("ls"))>>
    ELSE <<>>

\* the slots of handler.sig_ready in connection order: first the lambda that
\* emits terminal_ready (the host's slots run inside the emission), then
\* setup_term
ready_slots_cmds(reaction, f, path, options) ==
    host_reaction_cmds(reaction) \o setup_term_cmds(f, path, options)

\* ChannelHandler.ready; options is what the parent's configuration store
\* (self.parent.CONF, outside the bridge) holds when setup_term reads it
handler_ready(reaction, options) ==
    /\ registered
    /\ NotifMay
    /\ signals' = Append(signals, "ready")
    /\ notifs' = Append(notifs, "ready()")
    /\ conf' = options
    /\ surface' = surface \o ready_slots_cmds(reaction, font, initial_path, conf')
    /\ font' = font
    /\ lastCall' = [op |-> "setup_term", args |-> <<>>,
                    first |-> Len(surface) + 1,
                    host |-> Len(host_reaction_cmds(reaction)),
                    err |-> apply_settings_raises(conf'),
                    closed |-> Emitted("closed"),
                    value |-> None, ret |-> None]
    /\ UNCHANGED <<timer, pollLog, hostCalls, webengine, initial_path,
                   pageActions, lastEvent>>

\* faulty variant of handler_close: setup_term is connected to sig_closed too
handler_close_runs_setup ==
    /\ registered
    /\ NotifMay
    /\ signals' = Append(signals, "closed")
    /\ notifs' = Append(notifs, "close()")
    /\ surface' = surface \o setup_term_cmds(font, initial_path, conf)
    /\ lastCall' = Call("handler_close", <<>>, FALSE)
    /\ UNCHANGED <<font, timer, pollLog, hostCalls>> /\ Frame

\* faulty variant of handler_close: sig_closed is wired to terminal_ready
handler_close_emits_ready ==
    /\ registered
    /\ NotifMay
    /\ signals' = Append(signals, "ready")
    /\ notifs' = Append(notifs, "close()")
    /\ lastCall' = Call("handler_close", <<>>, FALSE)
    /\ UNCHANGED <<font, surface, timer, pollLog, hostCalls>> /\ Frame

\* ChannelHandler.close
handler_close ==
    /\ registered
    /\ NotifMay
    /\ signals' = Append(signals, "closed")
    /\ notifs' = Append(notifs, "close()")
    /\ lastCall' = Call("handler_close", <<>>, FALSE)
    /\ UNCHANGED <<font, surface, timer, pollLog, hostCalls>> /\ Frame

(***************************************************************************)
(* The liveness loop: TerminalWidget.__alive_loopback, run by the timer.   *)
(***************************************************************************)
\* TerminalWidget.is_alive: what the caller gets when the surface answers b
is_alive_result(b) == TermView_eval_javascript_result(PyBool(b))

\* faulty variant of alive_loopback: the timer is rearmed after every poll
alive_loopback_rearms(answer) ==
    /\ timer > 0
    /\ PollMay
    /\ surface' = Append(surface, eval_javascript(isAlive_script))
    /\ LET alive == is_alive_result(answer) IN
         /\ pollLog' = Append(pollLog, [answer |-> answer, alive |-> alive,
                                        closed |-> ~Truthy(alive)])
         /\ IF ~Truthy(alive)
            THEN /\ signals' = Append(signals, "closed")
                 /\ notifs' = Append(notifs, "poll")
            ELSE UNCHANGED <<signals, notifs>>
         /\ timer' = (timer - 1) + 1
    /\ lastCall' = Call("alive_loopback", <<>>, FALSE)
    /\ UNCHANGED <<font, hostCalls>> /\ Frame

alive_loopback(answer) ==
    /\ timer > 0
    /\ PollMay
    /\ surface' = Append(surface, eval_javascript(isAlive_script))
    /\ LET alive == is_alive_result(answer) IN
         /\ pollLog' = Append(pollLog, [answer |-> answer, alive |-> alive,
                                        closed |-> ~Truthy(alive)])
         /\ IF ~Truthy(alive)
            THEN /\ signals' = Append(signals, "closed")
                 /\ notifs' = Append(notifs, "poll")
                 /\ timer' = timer - 1
            ELSE /\ timer' = (timer - 1) + 1
                 /\ UNCHANGED <<signals, notifs>>
    /\ lastCall' = Call("alive_loopback", <<>>, FALSE)
    /\ UNCHANGED <<font, hostCalls>> /\ Frame

(***************************************************************************)
(* Keyboard interception: TermView.event, TermView.copy, TermView.paste.   *)
(***************************************************************************)
Key_A == 65
Key_C == 67
Key_T == 84
Key_V == 86
SHIFT == 33554432
CTRL == 67108864
ALT == 134217728
META == 268435456

Keys == {Key_A, Key_C, Key_T, Key_V}
Modifiers == {"Shift", "Ctrl", "Alt", "Meta"}
EventTypes == {"ShortcutOverride", "KeyPress"}

\* faulty variant of chord_key: the Meta modifier is left out
chord_key_without_meta(key, modifiers) ==
    key + (IF "Shift" \in modifiers THEN SHIFT ELSE 0)
        + (IF "Ctrl" \in modifiers THEN CTRL ELSE 0)
        + (IF "Alt" \in modifiers THEN ALT ELSE 0)

\* lines 244-251: each modifier present adds its offset to the key
chord_key(key, modifiers) ==
    key + (IF "Shift" \in modifiers THEN SHIFT ELSE 0)
        + (IF "Ctrl" \in modifiers THEN CTRL ELSE 0)
        + (IF "Alt" \in modifiers THEN ALT ELSE 0)
        + (IF "Meta" \in modifiers THEN META ELSE 0)

HasBit(k, bit) == (k \div bit) % 2 = 1

key_name(k) ==
    CASE k = Key_A -> "A"
      [] k = Key_C -> "C"
      [] k = Key_T -> "T"
      [] k = Key_V -> "V"
      [] OTHER -> "?"

\* QKeySequence(key).toString(QKeySequence.PortableText): the modifiers in
\* the order Meta, Ctrl, Alt, Shift, then the name of the key
portable_text(k) ==
    (IF HasBit(k, META) THEN "Meta+" ELSE "")
    \o (IF HasBit(k, CTRL) THEN "Ctrl+" ELSE "")
    \o (IF HasBit(k, ALT) THEN "Alt+" ELSE "")
    \o (IF HasBit(k, SHIFT) THEN "Shift+" ELSE "")
    \o key_name(k % SHIFT)

\* faulty variant of chord_action: the paste chord runs the copy branch
chord_action_paste_copies(sequence) ==
    CASE sequence = "Ctrl+Alt+Shift+T" -> "ignore"
      [] sequence = "Ctrl+Shift+C" -> "copy"
      [] sequence = "Ctrl+Shift+V" -> "copy"
      [] OTHER -> "accept"

\* the branch of TermView.event a chord text takes
chord_action(sequence) ==
    CASE sequence = "Ctrl+Alt+Shift+T" -> "ignore"
      [] sequence = "Ctrl+Shift+C" -> "copy"
      [] sequence = "Ctrl+Shift+V" -> "paste"
      [] OTHER -> "accept"

KeyMay == Len(pageActions) < MaxKeyEvents

OnlyKeys == UNCHANGED <<webengine, font, initial_path, conf, timer, surface,
                        signals, notifs, pollLog, lastCall, hostCalls>>

\* TermView.copy, triggered from the context menu or its shortcut
copy ==
    /\ KeyMay
    /\ pageActions' = Append(pageActions, "Copy")
    /\ lastEvent' = [NoEvent EXCEPT !.type = "copy_action",
                                    !.before = Len(pageActions)]
    /\ OnlyKeys

\* TermView.paste
paste ==
    /\ KeyMay
    /\ pageActions' = Append(pageActions, "Paste")
    /\ lastEvent' = [NoEvent EXCEPT !.type = "paste_action",
                                    !.before = Len(pageActions)]
    /\ OnlyKeys

\* TermView.event; accepted0 is the accepted flag the event arrives with
event(type, key, modifiers, accepted0) ==
    /\ KeyMay
    /\ IF type = "ShortcutOverride"
       THEN LET sequence == portable_text(chord_key(key, modifiers))
                action == chord_action(sequence) IN
            /\ pageActions' =
                 CASE action = "copy" -> Append(pageActions, "Copy")
                   [] action = "paste" -> Append(pageActions, "Paste")
                   [] OTHER -> pageActions
            /\ lastEvent' =
                 [type |-> type, key |-> key, modifiers |-> modifiers,
                  sequence |-> sequence, accepted0 |-> accepted0,
                  accepted |-> (action # "ignore"),
                  ret |-> IF action = "ignore" THEN "False" ELSE "True",
                  before |-> Len(pageActions)]
       ELSE /\ pageActions' = pageActions
            /\ lastEvent' =
                 [type |-> type, key |-> key, modifiers |-> modifiers,
                  sequence |-> "", accepted0 |-> accepted0,
                  accepted |-> accepted0,
                  ret |-> "WebView.event", before |-> Len(pageActions)]
    /\ OnlyKeys

(***************************************************************************)
(* Specifications.                                                         *)
(***************************************************************************)
HostOp ==
    \/ \E path \in DirArgs : set_dir(path)
    \/ \E f \in Fonts : set_font(f)
    \/ \E fonts \in FontLists : get_fonts(fonts)
    \/ \E regex \in RegexArgs, found \in BOOLEAN : search_next(regex, found)
    \/ \E regex \in RegexArgs, found \in BOOLEAN : search_previous(regex, found)
    \/ \E cmd \in CmdArgs : exec_cmd(cmd)
    \/ \E answer \in BOOLEAN : is_alive(answer)
    \/ \E o \in OptionArgs : set_option(o[1], o[2])
    \/ \E options \in HostOptionMaps : apply_settings(options)
    \/ \E delta \in WheelDeltas : wheelEvent(delta)

Next ==
    \/ HostOp
    \/ \E reaction \in HostReactions, options \in ConfMaps :
          handler_ready(reaction, options)
    \/ handler_close
    \/ \E answer \in BOOLEAN : alive_loopback(answer)

\* the bridge: lifecycle, liveness loop and command dispatch
Spec == Init /\ [][Next]_vars

NextKeys ==
    \/ \E type \in EventTypes, key \in Keys, modifiers \in SUBSET Modifiers,
          accepted0 \in BOOLEAN : event(type, key, modifiers, accepted0)
    \/ copy
    \/ paste

\* the keyboard interception layer of the view, on one constructed bridge
InitKeys == Init /\ webengine

SpecKeys == InitKeys /\ [][NextKeys]_vars

NextSettings == \E options \in AllOptionMaps : apply_settings(options)

\* apply_settings over every option map
SpecSettings == Init /\ [][NextSettings]_vars

(***************************************************************************)
(* Properties.                                                             *)
(***************************************************************************)
Range(seq) == {seq[i] : i \in DOMAIN seq}
Count(seq, x) == Cardinality({i \in DOMAIN seq : seq[i] = x})

\* C1: on a backend without a push channel, when the surface answers
\* isAlive() true N times and then false, terminal_closed is emitted by the
\* poll the surface answered false and by no poll it answered true, and no
\* poll follows the emission.
C1_ClosedOnFirstDeadPoll ==
    \A i \in DOMAIN pollLog :
        /\ pollLog[i].closed <=> ~pollLog[i].answer
        /\ pollLog[i].closed => i = Len(pollLog)

\* C2 as stated: terminal_closed is never emitted unless terminal_ready was
\* emitted before it, and terminal_ready is never emitted after terminal_closed.
C2_ReadyPrecedesClosed ==
    \A i \in DOMAIN signals :
        signals[i] = "closed" =>
            /\ \E j \in 1..(i - 1) : signals[j] = "ready"
            /\ \A j \in (i + 1)..Len(signals) : signals[j] # "ready"

RelayOf(notif) == IF notif = "ready()" THEN "ready" ELSE "closed"

\* C2 amended: the bridge relays and does not order: the host-visible
\* signals are, one for one and in the same order, the surface's ready()
\* calls (terminal_ready), its close() calls and the polls that read the
\* session as not alive (terminal_closed).
C2_SignalsFollowNotifications ==
    /\ Len(signals) = Len(notifs)
    /\ \A i \in DOMAIN signals : signals[i] = RelayOf(notifs[i])

C2_ClosedThenReady ==
    /\ Len(signals) >= 2
    /\ signals[1] = "closed"
    /\ signals[2] = "ready"
    /\ notifs = <<"close()", "ready()">>

\* C3 as stated: terminal_ready is emitted at most once and terminal_closed
\* is emitted at most once per bridge.
C3_NoSignalTwice ==
    /\ Count(signals, "ready") <= 1
    /\ Count(signals, "closed") <= 1

\* C3 amended: terminal_ready is emitted exactly once per ready() call of the
\* surface, terminal_closed exactly once per close() call, and the liveness
\* loop emits terminal_closed at most once.
C3_OneSignalPerNotification ==
    /\ Count(signals, "ready") = Count(notifs, "ready()")
    /\ Count(signals, "closed") = Count(notifs, "close()") + Count(notifs, "poll")
    /\ Count(notifs, "poll") <= 1
    /\ Count(notifs, "poll") = Cardinality({i \in DOMAIN pollLog : pollLog[i].closed})

C3_ReadyTwice == Count(signals, "ready") = 2 /\ Count(notifs, "ready()") = 2

\* C4 as stated: once terminal_closed has been emitted, no operation and no
\* surface notification changes the stored font or the stored initial path.
C4_FrozenAfterClosed ==
    [][Emitted("closed") => font' = font /\ initial_path' = initial_path]_vars

\* C4 amended: once terminal_closed has been emitted, set_font still replaces
\* the stored font by its argument; every other operation and every surface
\* notification leaves the stored font and the stored initial path unchanged.
C4_OnlySetFontAfterClosed ==
    [][Emitted("closed") =>
          /\ initial_path' = initial_path
          /\ lastCall'.op # "set_font" => font' = font
          /\ (lastCall'.op = "set_font" /\ hostCalls' # hostCalls)
                => font' = lastCall'.args[1]]_vars

C4_SetFontAfterClosed ==
    /\ lastCall.op = "set_font"
    /\ lastCall.closed
    /\ font = "Sans"
    /\ Range(surface) = {"spyder_terminal.default.fitFont(\"Sans\")"}

\* the commands the claim about apply_settings expects for an option map
\* whose cursor_type, if present, is 0, 1 or 2
C5_Expected(o) ==
    (IF "sound" \in DOMAIN o
     THEN {IF o["sound"]
           THEN "spyder_terminal.default.setOption(\"bellStyle\", \"sound\")"
           ELSE "spyder_terminal.default.setOption(\"bellStyle\", \"none\")"}
     ELSE {})
    \cup
    (IF "cursor_type" \in DOMAIN o
     THEN CASE o["cursor_type"] = 0 ->
                 {"spyder_terminal.default.setOption(\"cursorStyle\", \"block\")"}
            [] o["cursor_type"] = 1 ->
                 {"spyder_terminal.default.setOption(\"cursorStyle\", \"underline\")"}
            [] o["cursor_type"] = 2 ->
                 {"spyder_terminal.default.setOption(\"cursorStyle\", \"bar\")"}
            [] OTHER -> {}
     ELSE {})

C5_InRange(o) == "cursor_type" \in DOMAIN o => o["cursor_type"] \in 0..2

\* C5: apply_settings issues exactly one setOption command per recognized key
\* present (bellStyle sound/none for sound, cursorStyle block/underline/bar
\* for cursor_type 0/1/2) and none for any other key, without error; a map
\* with only unrecognized keys issues nothing.
C5_ApplySettings ==
    (lastCall.op = "apply_settings" /\ C5_InRange(lastCall.args[1])) =>
        /\ ~lastCall.err
        /\ Range(lastCmds) = C5_Expected(lastCall.args[1])
        /\ Len(lastCmds) = Cardinality(C5_Expected(lastCall.args[1]))
        /\ (DOMAIN lastCall.args[1] \subseteq {"zoom"}) => lastCmds = <<>>

C5_SoundUnderline ==
    /\ lastCall.op = "apply_settings"
    /\ lastCall.args[1] = SoundUnderline @@ ZoomOnly
    /\ Range(lastCmds) =
         {"spyder_terminal.default.setOption(\"bellStyle\", \"sound\")",
          "spyder_terminal.default.setOption(\"cursorStyle\", \"underline\")"}

\* C6: at the shortcut-override stage Ctrl+Shift+C invokes copy exactly once
\* and no paste and the event is consumed; Ctrl+Shift+V invokes paste exactly
\* once and no copy and the event is consumed; Ctrl+Alt+Shift+T invokes
\* neither and the event is ignored, the handler returning false.
C6_Chords ==
    lastEvent.type = "ShortcutOverride" =>
        /\ (lastEvent.key = Key_C /\ lastEvent.modifiers = {"Ctrl", "Shift"})
              => lastEvent.sequence = "Ctrl+Shift+C"
        /\ (lastEvent.key = Key_V /\ lastEvent.modifiers = {"Ctrl", "Shift"})
              => lastEvent.sequence = "Ctrl+Shift+V"
        /\ (lastEvent.key = Key_T /\ lastEvent.modifiers = {"Ctrl", "Alt", "Shift"})
              => lastEvent.sequence = "Ctrl+Alt+Shift+T"
        /\ lastEvent.sequence = "Ctrl+Shift+C"
              => /\ lastPageActions = <<"Copy">>
                 /\ lastEvent.accepted /\ lastEvent.ret = "True"
        /\ lastEvent.sequence = "Ctrl+Shift+V"
              => /\ lastPageActions = <<"Paste">>
                 /\ lastEvent.accepted /\ lastEvent.ret = "True"
        /\ lastEvent.sequence = "Ctrl+Alt+Shift+T"
              => /\ lastPageActions = <<>>
                 /\ ~lastEvent.accepted /\ lastEvent.ret = "False"

C6_CopyThenToggle ==
    /\ lastEvent.type = "ShortcutOverride"
    /\ lastEvent.key = Key_T
    /\ lastEvent.modifiers = {"Ctrl", "Alt", "Shift"}
    /\ lastEvent.ret = "False"
    /\ pageActions = <<"Copy">>

\* the command text the serialization rule gives: prefix, name, and the
\* arguments between parentheses, each one rendered by `render`
Quoted(a) == "\"" \o a \o "\""

Serialized(name, rendered) ==
    "spyder_terminal.default." \o name \o "("
    \o (CASE Len(rendered) = 0 -> ""
          [] Len(rendered) = 1 -> rendered[1]
          [] OTHER -> rendered[1] \o ", " \o rendered[2])
    \o ")"

SettingTexts ==
    {Serialized("setOption", <<Quoted(n), Quoted(v)>>) :
        n \in {"bellStyle", "cursorStyle"},
        v \in {"sound", "none", "block", "underline", "bar"}}

\* the texts expected of the most recent operation; numberText renders the
\* numeric argument of the wheel handler
ExpectedTexts(numberText(_)) ==
    CASE lastCall.op = "set_dir" ->
           lastCmds = <<Serialized("setcwd", <<Quoted(lastCall.args[1])>>)>>
      [] lastCall.op = "set_font" ->
           lastCmds = <<Serialized("fitFont", <<Quoted(lastCall.args[1])>>)>>
      [] lastCall.op = "exec_cmd" ->
           lastCmds = <<Serialized("exec", <<Quoted(lastCall.args[1])>>)>>
      [] lastCall.op = "search_next" ->
           lastCmds = <<Serialized("searchNext", <<Quoted(lastCall.args[1])>>)>>
      [] lastCall.op = "search_previous" ->
           lastCmds = <<Serialized("searchPrevious", <<Quoted(lastCall.args[1])>>)>>
      [] lastCall.op = "get_fonts" ->
           lastCmds = <<Serialized("getFonts", <<>>)>>
      [] lastCall.op \in {"is_alive", "alive_loopback"} ->
           lastCmds = <<Serialized("isAlive", <<>>)>>
      [] lastCall.op = "set_option" ->
           lastCmds = <<Serialized("setOption", <<Quoted(lastCall.args[1]),
                                                  Quoted(lastCall.args[2])>>)>>
      [] lastCall.op = "apply_settings" ->
           Range(lastCmds) \subseteq SettingTexts
      [] lastCall.op = "wheelEvent" ->
           lastCmds = <<Serialized("scrollTerm", <<numberText(lastCall.args[1])>>)>>
      [] lastCall.op = "setup_term" ->
           /\ Len(lastCmds) >= lastCall.host + 2
           /\ \A i \in 1..lastCall.host :
                lastCmds[i] = Serialized("exec", <<Quoted("ls")>>)
           /\ lastCmds[lastCall.host + 1] = Serialized("fitFont", <<Quoted(font)>>)
           /\ lastCmds[lastCall.host + 2] =
                Serialized("setcwd", <<Quoted(initial_path)>>)
           /\ \A i \in (lastCall.host + 3)..Len(lastCmds) :
                lastCmds[i] \in SettingTexts
      [] OTHER -> lastCmds = <<>>

QuotedNumber(n) == Quoted(ToString(n))
BareNumber(n) == ToString(n)

\* C7 as stated: every command that reaches the surface is the prefix, once,
\* then the command name, then all its arguments double-quoted between
\* parentheses.
C7_AllArgumentsQuoted == ExpectedTexts(QuotedNumber)

\* C7 amended: every command that reaches the surface is the prefix, once,
\* then the command name, then its arguments between parentheses, the string
\* arguments double-quoted and the wheel handler's numeric delta as a bare
\* number; set_dir('/tmp/x') dispatches spyder_terminal.default.setcwd("/tmp/x").
C7_CommandText ==
    /\ ExpectedTexts(BareNumber)
    /\ (lastCall.op = "set_dir" /\ lastCall.args = <<"/tmp/x">>)
          => lastCmds = <<"spyder_terminal.default.setcwd(\"/tmp/x\")">>

C7_SetDirAndWheel ==
    /\ lastCall.op = "wheelEvent"
    /\ surface = <<"spyder_terminal.default.setcwd(\"/tmp/x\")",
                   "spyder_terminal.default.scrollTerm(-120)">>

\* C8: set_font called twice in a row with the same value dispatches two
\* identical fitFont commands, and the second call leaves the bridge as the
\* first call left it, the stored font being that value.
C8_SetFontTwice ==
    [][(/\ lastCall.op = "set_font"
        /\ lastCall'.op = "set_font"
        /\ hostCalls' = hostCalls + 1
        /\ lastCall'.args = lastCall.args)
       => /\ font = lastCall.args[1]
          /\ font' = font
          /\ surface' = Append(surface, surface[Len(surface)])
          /\ surface[Len(surface)] =
               "spyder_terminal.default.fitFont(\"" \o font \o "\")"
          /\ UNCHANGED <<webengine, initial_path, conf, timer, signals,
                         notifs, pollLog, pageActions, lastEvent>>]_vars

C8_TwoIdenticalFitFont ==
    /\ lastCall.op = "set_font"
    /\ hostCalls = 2
    /\ Len(surface) >= 2
    /\ lastCall.first = Len(surface)
    /\ surface[Len(surface) - 1] = surface[Len(surface)]
    /\ font = lastCall.args[1]

\* C9: each time the surface's ready notification is handled the setup
\* commands are dispatched in this order with nothing in between: fitFont
\* with the stored font, setcwd with the initial path, then the setOption
\* commands of the current options.
C9_SetupOrder ==
    lastCall.op = "setup_term" =>
        LET setup == SubSeq(surface, lastCall.first + lastCall.host, Len(surface))
            settings == SubSeq(setup, 3, Len(setup))
        IN /\ Len(setup) >= 2
           /\ setup[1] = "spyder_terminal.default.fitFont(\"" \o font \o "\")"
           /\ setup[2] = "spyder_terminal.default.setcwd(\"" \o initial_path \o "\")"
           /\ Range(settings) = C5_Expected(conf)
           /\ Len(settings) = Cardinality(C5_Expected(conf))

C9_SecondSetup ==
    /\ lastCall.op = "setup_term"
    /\ Count(signals, "ready") = 2
    /\ conf = SoundUnderline
    /\ Len(lastCmds) = 4 + lastCall.host
    /\ lastCall.host = 1
    /\ Len(surface) = 3 + Len(lastCmds)

\* C10 as stated: on a backend without a push channel, once a liveness poll
\* was answered alive the bridge has emitted terminal_ready.
C10_AlivePollMakesReady ==
    (~webengine /\ \E i \in DOMAIN pollLog : pollLog[i].answer)
        => Emitted("ready")

\* C10 amended: on a backend without a push channel no liveness poll emits
\* terminal_ready or runs the setup sequence: a poll dispatches isAlive() and
\* nothing else, and terminal_ready is never emitted on such a backend; it
\* is emitted, and setup run, only when the surface calls handler.ready().
C10_PollNeverMakesReady ==
    /\ ~webengine => (~Emitted("ready") /\ lastCall.op # "setup_term")
    /\ lastCall.op = "alive_loopback" =>
          lastCmds = <<"spyder_terminal.default.isAlive()">>
    /\ Count(signals, "ready") = Count(notifs, "ready()")

C10_AlivePollAnswered ==
    /\ ~webengine
    /\ lastCall.op = "alive_loopback"
    /\ pollLog[Len(pollLog)].answer

ValueOps == {"is_alive", "get_fonts", "search_next", "search_previous"}

\* C11: on a synchronous-capable surface (no web engine) is_alive, get_fonts,
\* search_next and search_previous return the value the surface computed for
\* the command; on an asynchronous-only surface they return no value.
C11_ValueReturned ==
    lastCall.op \in ValueOps =>
        IF webengine
        THEN lastCall.ret = None
        ELSE lastCall.ret = lastCall.value

\* C12 as stated: no command is dispatched to the surface before the ready
\* event has been received.
C12_NoCommandBeforeReady == ~Emitted("ready") => surface = <<>>

\* C12 amended: the bridge dispatches its own setup commands only while
\* handling the ready notification; it does not hold back anything else:
\* every command dispatched before ready comes from an operation the host
\* called, from the wheel handler or from a liveness poll.
C12_OnlyCallsAndPollsBeforeReady ==
    [][/\ (surface' # surface /\ ~Emitted("ready")')
            => \/ hostCalls' = hostCalls + 1
               \/ Len(pollLog') = Len(pollLog) + 1
       /\ (surface' # surface /\ lastCall'.op = "setup_term")
            => signals' = Append(signals, "ready")]_vars

C12_CommandsBeforeReady ==
    /\ ~Emitted("ready")
    /\ webengine
    /\ lastCall.op = "wheelEvent"
    /\ surface = <<"spyder_terminal.default.exec(\"ls\")",
                   "spyder_terminal.default.scrollTerm(-120)">>

\* C13 as stated: every operation call appends exactly one command to what
\* the surface already received, so commands reach the surface in call order.
C13_OneCommandPerCall ==
    [][hostCalls' = hostCalls + 1
         => /\ Len(surface') = Len(surface) + 1
            /\ SubSeq(surface', 1, Len(surface)) = surface]_vars

\* C13 amended: every operation call appends its commands to what the surface
\* already received, at once and in call order, nothing buffered, dropped or
\* duplicated: exactly one command per call, except apply_settings, which
\* appends one command per recognized option it applies (none, one or two).
C13_CommandsInCallOrder ==
    [][hostCalls' = hostCalls + 1
         => /\ SubSeq(surface', 1, Len(surface)) = surface
            /\ lastCall'.first = Len(surface) + 1
            /\ ExpectedTexts(BareNumber)'
            /\ IF lastCall'.op = "apply_settings"
               THEN Len(surface') - Len(surface)
                      = Cardinality(C5_Expected(lastCall'.args[1]))
               ELSE Len(surface') = Len(surface) + 1]_vars

C13_TwoCallsInOrder ==
    /\ hostCalls = 2
    /\ lastCall.op = "exec_cmd"
    /\ surface = <<"spyder_terminal.default.setOption(\"bellStyle\", \"sound\")",
                   "spyder_terminal.default.setOption(\"cursorStyle\", \"underline\")",
                   "spyder_terminal.default.exec(\"ls\")">>

ReservedChords ==
    {<<Key_T, {"Ctrl", "Alt", "Shift"}>>,
     <<Key_C, {"Ctrl", "Shift"}>>,
     <<Key_V, {"Ctrl", "Shift"}>>}

\* C14: a shortcut-override event whose chord is none of the toggle, copy and
\* paste chords is consumed (accepted, the handler returns true) without copy
\* or paste and without any command; an event of another type goes unchanged
\* to the default event handling and triggers neither copy nor paste.
C14_OtherEvents ==
    /\ (/\ lastEvent.type = "ShortcutOverride"
        /\ <<lastEvent.key, lastEvent.modifiers>> \notin ReservedChords)
          => /\ lastEvent.accepted
             /\ lastEvent.ret = "True"
             /\ lastPageActions = <<>>
             /\ surface = <<>>
    /\ lastEvent.type = "KeyPress"
          => /\ lastEvent.ret = "WebView.event"
             /\ lastEvent.accepted = lastEvent.accepted0
             /\ lastPageActions = <<>>
             /\ surface = <<>>

C14_MetaCopyChordSwallowed ==
    /\ lastEvent.type = "ShortcutOverride"
    /\ lastEvent.key = Key_C
    /\ lastEvent.modifiers = {"Meta", "Ctrl", "Shift"}
    /\ lastEvent.sequence = "Meta+Ctrl+Shift+C"
    /\ lastEvent.ret = "True"
    /\ pageActions = <<"Paste">>

\* C15: one detection mechanism per bridge, chosen by the backend at
\* construction: the liveness poll is scheduled if and only if the backend has
\* no push channel, the handler is registered with the surface if and only if
\* it has one, and on a push-capable backend the bridge never issues a poll.
C15_OneDetectionMechanism ==
    /\ registered <=> webengine
    /\ Len(pollLog) = 0 => (timer = 1 <=> ~webengine)
    /\ webengine => (timer = 0 /\ pollLog = <<>>)
    /\ ~webengine => \A i \in DOMAIN notifs : notifs[i] = "poll"
    /\ webengine => \A i \in DOMAIN notifs : notifs[i] # "poll"

C15_PushBackendNeverPolls ==
    /\ webengine
    /\ notifs = <<"ready()", "close()">>
    /\ hostCalls = 2
    /\ pollLog = <<>>
    /\ timer = 0

CursorTexts ==
    {Serialized("setOption", <<Quoted("cursorStyle"), Quoted(v)>>) :
        v \in {"block", "underline", "bar"}}

C16_OutOfRange(o) == "cursor_type" \in DOMAIN o /\ o["cursor_type"] \notin 0..2

C16_BellText(o) ==
    IF "sound" \notin DOMAIN o THEN <<>>
    ELSE IF o["sound"]
         THEN <<"spyder_terminal.default.setOption(\"bellStyle\", \"sound\")">>
         ELSE <<"spyder_terminal.default.setOption(\"bellStyle\", \"none\")">>

\* C16: apply_settings with a cursor_type outside 0..2 fails with an error and
\* dispatches no cursorStyle command, but the bellStyle command of the same
\* map was already dispatched; inside the ready setup the font and the
\* working-directory commands were dispatched before the failure too.
C16_BadCursorNotAtomic ==
    /\ (lastCall.op = "apply_settings" /\ C16_OutOfRange(lastCall.args[1]))
          => /\ lastCall.err
             /\ Range(lastCmds) \cap CursorTexts = {}
             /\ lastCmds = C16_BellText(lastCall.args[1])
    /\ (lastCall.op = "setup_term" /\ C16_OutOfRange(conf))
          => /\ lastCall.err
             /\ SubSeq(surface, lastCall.first + lastCall.host, Len(surface))
                  = <<"spyder_terminal.default.fitFont(\"" \o font \o "\")",
                      "spyder_terminal.default.setcwd(\"" \o initial_path \o "\")">>
                    \o C16_BellText(conf)
    /\ lastCall.err =>
          \/ lastCall.op = "setup_term" /\ C16_OutOfRange(conf)
          \/ lastCall.op = "apply_settings" /\ C16_OutOfRange(lastCall.args[1])

C16_FailedTwice ==
    /\ lastCall.op = "setup_term"
    /\ lastCall.err
    /\ lastCall.host = 0
    /\ surface = <<"spyder_terminal.default.setOption(\"bellStyle\", \"sound\")",
                   "spyder_terminal.default.fitFont(\"Mono\")",
                   "spyder_terminal.default.setcwd(\"~\")",
                   "spyder_terminal.default.setOption(\"bellStyle\", \"sound\")">>

\* C17: on a poll backend at most one poll timer is pending at any time; only
\* a poll touches the timer, and it schedules the next one only when it read
\* the session as alive; once a poll has led to terminal_closed no timer is
\* pending ever again.
C17_TimerDiscipline ==
    [][/\ timer \in {0, 1} /\ timer' \in {0, 1}
       /\ Len(pollLog') = Len(pollLog) => timer' = timer
       /\ Len(pollLog') = Len(pollLog) + 1
            => /\ timer = 1
               /\ timer' = IF Truthy(pollLog'[Len(pollLog')].alive) THEN 1 ELSE 0
               /\ pollLog'[Len(pollLog')].closed
                    <=> ~Truthy(pollLog'[Len(pollLog')].alive)
       /\ (\E i \in DOMAIN pollLog : pollLog[i].closed) => timer' = 0]_vars

C17_NoTimerAfterClosingPoll ==
    /\ ~webengine
    /\ Len(pollLog) = 1
    /\ pollLog[1].closed
    /\ timer = 0
    /\ hostCalls = 2
    /\ lastCall.op = "set_dir"

\* C18: when terminal_ready is delivered to the host the setup commands have
\* already been dispatched: a command the host issues from its ready handler
\* is dispatched after the font, working-directory and settings commands.
C18_HostCommandAfterSetup ==
    (lastCall.op = "setup_term" /\ lastCall.host > 0) =>
        /\ lastCmds[1] = "spyder_terminal.default.fitFont(\"" \o font \o "\")"
        /\ lastCmds[2] = "spyder_terminal.default.setcwd(\"" \o initial_path \o "\")"
        /\ lastCmds[Len(lastCmds)] = "spyder_terminal.default.exec(\"ls\")"

\* C19: among the public operations only set_font changes the stored font,
\* and none changes the stored working directory; so a ready notification
\* handled after set_dir(p) and set_font(f) applies font f and the
\* construction-time working directory, not p.
C19_OnlySetFontStores ==
    [][/\ initial_path' = initial_path
       /\ initial_path' \in Paths
       /\ font' # font
            => /\ lastCall'.op = "set_font"
               /\ hostCalls' = hostCalls + 1
               /\ font' = lastCall'.args[1]
       /\ (lastCall'.op # "set_font" /\ hostCalls' = hostCalls + 1)
            => font' = font
       /\ (lastCall'.op = "setup_term" /\ surface' # surface)
            => /\ surface'[lastCall'.first + lastCall'.host]
                    = "spyder_terminal.default.fitFont(\"" \o font \o "\")"
               /\ surface'[lastCall'.first + lastCall'.host + 1]
                    = "spyder_terminal.default.setcwd(\"" \o initial_path \o "\")"]_vars

C19_ReadyAfterSetDirAndSetFont ==
    /\ lastCall.op = "setup_term"
    /\ lastCall.host = 0
    /\ Len(surface) >= 4
    /\ SubSeq(surface, 1, 4) =
         <<"spyder_terminal.default.setcwd(\"/tmp/x\")",
           "spyder_terminal.default.fitFont(\"Sans\")",
           "spyder_terminal.default.fitFont(\"Sans\")",
           "spyder_terminal.default.setcwd(\"~\")">>
====
